---- MODULE Spec2Model ----
(***************************************************************************)
(* Meeting-notes action-item extractor: extract_actions.py (the pattern    *)
(* matcher, the two model requesters, the dispatching engine) and the      *)
(* /extract route of app.py.                                               *)
(*                                                                         *)
(* A Python str is a sequence of one-character strings.  A Python value    *)
(* (what json.loads returns, what the extractors return) is a record       *)
(* [t, s, items]: t the type, s the characters of a str/int/bool, items    *)
(* the elements of a list or the key/value pairs of a dict.                *)
(***************************************************************************)
EXTENDS Integers, Sequences, FiniteSets, TLC

VARIABLES
    text,                \* the meeting notes handed to the call
    provider,            \* the strategy name
    kwargs,              \* the caller's options: api_key, base_url, model
    environ,             \* os.environ: OPENAI_API_KEY
    OPENAI_AVAILABLE,    \* the openai package was importable
    REQUESTS_AVAILABLE,  \* the requests package was importable
    caller,              \* "web" (app.extract) or "direct" (CLI, library)
    pc,                  \* where the call stands
    response,            \* the model's response text, once received
    result,              \* the list the call returned
    raised,              \* the exception that left extract_action_items
    calls,               \* per call: requester, network, matcher invocations
    client_key,          \* the api_key the OpenAI client was built with
    transport,           \* "down": every network call fails; "any": it may answer
    source,              \* which strategy produced result
    http                 \* the status app.extract answered with (0: none)

vars == <<text, provider, kwargs, environ, OPENAI_AVAILABLE, REQUESTS_AVAILABLE,
          caller, pc, response, result, raised, calls, client_key, transport,
          source, http>>

(***************************************************************************)
(* Characters.                                                             *)
(***************************************************************************)
NL == "\n"
BULLET == "U+2022"   \* the character '•' of task_pattern
Lower == <<"a","b","c","d","e","f","g","h","i","j","k","l","m",
           "n","o","p","q","r","s","t","u","v","w","x","y","z">>
Upper == <<"A","B","C","D","E","F","G","H","I","J","K","L","M",
           "N","O","P","Q","R","S","T","U","V","W","X","Y","Z">>
LowerSet == {Lower[i] : i \in 1..26}
UpperSet == {Upper[i] : i \in 1..26}
Letter == LowerSet \cup UpperSet
Digit == {"0","1","2","3","4","5","6","7","8","9"}
\* \w, \s and . of Python's re on str patterns, over ASCII
Word == Letter \cup Digit \cup {"_"}
FF == "U+000C"
VT == "U+000B"
Space == {" ", NL, "\t", "\r", FF, VT}
\* the whitespace of JSON
JsonWs == {" ", NL, "\t", "\r"}
FoldMap == [c \in UpperSet |-> Lower[CHOOSE i \in 1..26 : Upper[i] = c]]
Fold(c) == IF c \in UpperSet THEN FoldMap[c] ELSE c

Min(S) == CHOOSE m \in S : \A o \in S : m <= o
Max(S) == CHOOSE m \in S : \A o \in S : m >= o

\* str.strip(): leading and trailing whitespace removed
Strip(s) ==
    LET keep == {i \in 1..Len(s) : s[i] \notin Space}
    IN IF keep = {} THEN <<>> ELSE SubSeq(s, Min(keep), Max(keep))

(***************************************************************************)
(* The pattern matcher: extract_with_regex.                                *)
(* A match attempt at a position is the first success of Python's          *)
(* backtracking search: every quantifier's lengths are enumerated and the  *)
(* successful combination of highest priority is taken (greedy: longest    *)
(* first; non-greedy: shortest first; alternation: left to right).         *)
(***************************************************************************)
\* re.IGNORECASE of the finditer call
IGNORECASE == TRUE

\* a literal character of a pattern against a character of the text
EqChar(c, l) == IF IGNORECASE THEN Fold(c) = Fold(l) ELSE c = l
\* [A-Z] and [a-z] of name_pattern against a character of the text
InAZ(c) == IF IGNORECASE THEN c \in Letter ELSE c \in UpperSet
Inaz(c) == IF IGNORECASE THEN c \in Letter ELSE c \in LowerSet

\* the position after the longest run of characters of class C from p
RunEnd(t, p, C) ==
    CHOOSE q \in p..(Len(t) + 1) :
        /\ \A i \in p..(q - 1) : t[i] \in C
        /\ (q = Len(t) + 1 \/ t[q] \notin C)

AZRunEnd(t, p) ==
    CHOOSE q \in p..(Len(t) + 1) :
        /\ \A i \in p..(q - 1) : Inaz(t[i])
        /\ (q = Len(t) + 1 \/ ~Inaz(t[q]))

\* the literal lit (lower case in the patterns) at position p
LitAt(t, p, lit) ==
    /\ p + Len(lit) - 1 <= Len(t)
    /\ \A i \in 1..Len(lit) : EqChar(t[p + i - 1], lit[i])

\* (?:to|will|should) of mention_pattern, (?:will|should|to) of name_pattern
MentionVerbs == << <<"t","o">>, <<"w","i","l","l">>, <<"s","h","o","u","l","d">> >>
NameVerbs == << <<"w","i","l","l">>, <<"s","h","o","u","l","d">>, <<"t","o">> >>
\* (?:by|before|until|due)
Markers == << <<"b","y">>, <<"b","e","f","o","r","e">>,
              <<"u","n","t","i","l">>, <<"d","u","e">> >>

\* The due-date group: \w+\s*\d*,?\s*\d*|today|tomorrow|next\s+\w+|Friday|Monday|etc\.?
\* It ends the pattern, so the first alternative that matches is taken with
\* every quantifier at its longest.  0: no match at p.
DueEnd(t, p) ==
    LET a == RunEnd(t, p, Word)
        b == RunEnd(t, a, Space)
        c == RunEnd(t, b, Digit)
        d == IF c <= Len(t) /\ t[c] = "," THEN c + 1 ELSE c
        e == RunEnd(t, d, Space)
        f == RunEnd(t, e, Digit)
        today == <<"t","o","d","a","y">>
        tomorrow == <<"t","o","m","o","r","r","o","w">>
        next == <<"n","e","x","t">>
        friday == <<"f","r","i","d","a","y">>
        monday == <<"m","o","n","d","a","y">>
        etc == <<"e","t","c">>
        ns == RunEnd(t, p + 4, Space)
    IN IF p > Len(t) THEN 0
       ELSE IF a > p THEN f
       ELSE IF LitAt(t, p, today) THEN p + 5
       ELSE IF LitAt(t, p, tomorrow) THEN p + 8
       ELSE IF LitAt(t, p, next) /\ ns > p + 4 /\ RunEnd(t, ns, Word) > ns
            THEN RunEnd(t, ns, Word)
       ELSE IF LitAt(t, p, friday) THEN p + 6
       ELSE IF LitAt(t, p, monday) THEN p + 6
       ELSE IF LitAt(t, p, etc)
            THEN (IF p + 3 <= Len(t) /\ t[p + 3] = "." THEN p + 4 ELSE p + 3)
       ELSE 0

\* A match attempt's outcome: ok, the captured groups, end (the position
\* after the match), key (the choice that led to it, by which alternatives
\* are ranked) and g1 (the position after group 1).
NoMatch == [ok |-> FALSE, key |-> 0, g1 |-> 0, groups |-> <<>>, end |-> 0]
Keyed(k, r) == [r EXCEPT !.key = k]
SetG1(g, r) == [r EXCEPT !.g1 = g]
\* of the outcomes R of the alternatives, the first success when the
\* alternative of least key is tried first (non-greedy, alternation)
First(R) ==
    LET S == {r \in R : r.ok}
    IN IF S = {} THEN NoMatch ELSE CHOOSE r \in S : \A o \in S : r.key <= o.key
\* the same when the alternative of greatest key is tried first (greedy)
Last(R) ==
    LET S == {r \in R : r.ok}
    IN IF S = {} THEN NoMatch ELSE CHOOSE r \in S : \A o \in S : r.key >= o.key
\* r with the group t[from .. to-1] captured before its groups
Capture(t, from, to, r) ==
    IF r.ok THEN [r EXCEPT !.groups = <<SubSeq(t, from, to - 1)>> \o @] ELSE r
CaptureToKey(t, from, r) == Capture(t, from, r.key, r)
CaptureToG1(t, from, r) == Capture(t, from, r.g1, r)

\* the due-date group at x
DueGroup(t, x, end) ==
    IF end = 0 THEN NoMatch
    ELSE [ok |-> TRUE, key |-> x, g1 |-> 0, groups |-> <<SubSeq(t, x, end - 1)>>,
          end |-> end]
DueMatch(t, x) == DueGroup(t, x, DueEnd(t, x))

\* marker\s+(due date) with the marker at e: \s+ greedy
MarkerThenDue(t, e, marker) ==
    IF LitAt(t, e, marker)
    THEN Last({DueMatch(t, x) :
                  x \in (e + Len(marker) + 1)..RunEnd(t, e + Len(marker), Space)})
    ELSE NoMatch

\* (?:by|before|until|due)\s+(due date) at e: the markers in their order
MarkersThenDue(t, e) ==
    First({Keyed(k, MarkerThenDue(t, e, Markers[k])) : k \in 1..Len(Markers)})

\* (.+?) from s: the ends a task may have ('.' matches no newline)
TaskEnds(t, s) == {e \in (s + 1)..Len(t) : \A i \in s..(e - 1) : t[i] # NL}

\* (.+?)(?:by|before|until|due)\s+(due date) from s: the shortest task first
DeadlineTail(t, s) ==
    CaptureToKey(t, s, First({Keyed(e, MarkersThenDue(t, e)) : e \in TaskEnds(t, s)}))

\* \s+ (greedy) and the deadline tail, from c
SpaceThenTail(t, c) ==
    Last({Keyed(d, DeadlineTail(t, d)) : d \in (c + 1)..RunEnd(t, c, Space)})

\* one verb, \s+ and the deadline tail, from b
VerbAt(t, b, verb) ==
    IF LitAt(t, b, verb) THEN SpaceThenTail(t, b + Len(verb)) ELSE NoMatch

\* (?:verb|verb|verb)\s+ and the deadline tail, from b
VerbThenTail(t, b, verbs) ==
    First({Keyed(k, VerbAt(t, b, verbs[k])) : k \in 1..Len(verbs)})

\* \s+ (greedy), the verb and the rest, from the end a of the assignee group
AfterAssignee(t, a, verbs) ==
    SetG1(a, Last({Keyed(b, VerbThenTail(t, b, verbs)) :
                      b \in (a + 1)..RunEnd(t, a, Space)}))

\* mention_pattern at p: @(\w+)\s+(?:to|will|should)\s+(.+?)(?:by|...)\s+(due)
MentionAt(t, p) ==
    IF t[p] # "@" THEN NoMatch
    ELSE CaptureToG1(t, p + 1,
             Last({Keyed(a, AfterAssignee(t, a, MentionVerbs)) :
                      a \in (p + 2)..RunEnd(t, p + 1, Word)}))

\* [A-Z][a-z]+ of the optional second word from w, and the rest
SecondWordAt(t, w) ==
    IF w <= Len(t) /\ InAZ(t[w])
    THEN Last({Keyed(a2, AfterAssignee(t, a2, NameVerbs)) :
                  a2 \in (w + 2)..AZRunEnd(t, w + 1)})
    ELSE NoMatch

\* after a first word ending at a1: (?:\s+[A-Z][a-z]+)? taken (option 2, tried
\* first) or not (option 1), and the rest
NameOption(t, a1, option) ==
    IF option = 2
    THEN Last({Keyed(w, SecondWordAt(t, w)) : w \in (a1 + 1)..RunEnd(t, a1, Space)})
    ELSE AfterAssignee(t, a1, NameVerbs)

NameFirstWord(t, a1) == Last({Keyed(o, NameOption(t, a1, o)) : o \in {1, 2}})

\* name_pattern at p: ([A-Z][a-z]+(?:\s+[A-Z][a-z]+)?)\s+(?:will|should|to)\s+...
NameAt(t, p) ==
    IF ~InAZ(t[p]) THEN NoMatch
    ELSE CaptureToG1(t, p,
             Last({Keyed(a1, NameFirstWord(t, a1)) :
                      a1 \in (p + 2)..AZRunEnd(t, p + 1)}))

\* task_pattern at p: [-•*]\s*(.+?)(?:by|before|until|due)\s+(due)
BulletAt(t, p) ==
    IF t[p] \notin {"-", BULLET, "*"} THEN NoMatch
    ELSE Last({Keyed(d, DeadlineTail(t, d)) : d \in (p + 1)..RunEnd(t, p + 1, Space)})

\* for pattern in [mention_pattern, name_pattern, task_pattern]
Patterns == <<"mention_pattern", "name_pattern", "task_pattern">>

MatchAt(pattern, t, p) ==
    CASE pattern = "mention_pattern" -> MentionAt(t, p)
      [] pattern = "name_pattern" -> NameAt(t, p)
      [] pattern = "task_pattern" -> BulletAt(t, p)

\* re.finditer(pattern, text, ...): the leftmost match from pos, then on from
\* its end (no match of these patterns is empty)
RECURSIVE Finditer(_, _, _), FinditerOn(_, _, _)
Finditer(pattern, t, pos) ==
    FinditerOn(pattern, t, First({Keyed(p, MatchAt(pattern, t, p)) : p \in pos..Len(t)}))
FinditerOn(pattern, t, m) ==
    IF m.ok THEN <<m>> \o Finditer(pattern, t, m.end) ELSE <<>>

(***************************************************************************)
(* Python values.                                                          *)
(***************************************************************************)
PyStr(s) == [t |-> "str", s |-> s, items |-> <<>>]
PyList(xs) == [t |-> "list", s |-> <<>>, items |-> xs]
PyPair(k, v) == [t |-> "pair", s |-> k, items |-> <<v>>]
PyDict(pairs) == [t |-> "dict", s |-> <<>>, items |-> pairs]
PyNone == [t |-> "None", s |-> <<>>, items |-> <<>>]
PyInt(digits) == [t |-> "int", s |-> digits, items |-> <<>>]
PyBool(word) == [t |-> "bool", s |-> word, items |-> <<>>]

K_assignee == <<"a","s","s","i","g","n","e","e">>
K_task == <<"t","a","s","k">>
K_due_date == <<"d","u","e","_","d","a","t","e">>
K_priority == <<"p","r","i","o","r","i","t","y">>
K_context == <<"c","o","n","t","e","x","t">>
Unassigned == <<"U","n","a","s","s","i","g","n","e","d">>
Medium == <<"m","e","d","i","u","m">>
ExtractedContext == <<"e","x","t","r","a","c","t","e","d"," ","f","r","o","m"," ",
                      "m","e","e","t","i","n","g"," ","n","o","t","e","s">>

ActionItem(assignee, task, due_date) ==
    PyDict(<<PyPair(K_assignee, PyStr(assignee)), PyPair(K_task, PyStr(task)),
             PyPair(K_due_date, PyStr(due_date)), PyPair(K_priority, PyStr(Medium)),
             PyPair(K_context, PyStr(ExtractedContext))>>)

\* the body of "for match in matches": the items one match appends
ItemsOfMatch(m) ==
    IF Len(m.groups) >= 3
    THEN <<ActionItem(IF m.groups[1] # <<>> THEN m.groups[1] ELSE Unassigned,
                      Strip(m.groups[2]), Strip(m.groups[3]))>>
    ELSE IF Len(m.groups) = 2
    THEN <<ActionItem(Unassigned, Strip(m.groups[1]), Strip(m.groups[2]))>>
    ELSE <<>>

RECURSIVE ItemsOfMatches(_)
ItemsOfMatches(ms) ==
    IF ms = <<>> THEN <<>>
    ELSE ItemsOfMatch(Head(ms)) \o ItemsOfMatches(Tail(ms))

\* the items one pattern contributes: one pass of "for pattern in [...]"
ItemsOfPattern(pattern, t) == ItemsOfMatches(Finditer(pattern, t, 1))

\* a pass that leaves out the items an earlier pass already produced
RECURSIVE Without(_, _)
Without(items, seen) ==
    IF items = <<>> THEN <<>>
    ELSE IF \E i \in 1..Len(seen) : seen[i] = Head(items)
    THEN Without(Tail(items), seen)
    ELSE <<Head(items)>> \o Without(Tail(items), seen)
AppendPatternDedup(actions, i, t) ==
    actions \o Without(ItemsOfPattern(Patterns[i], t), actions)
\* actions after the pass over pattern i
AppendPattern(actions, i, t) == actions \o ItemsOfPattern(Patterns[i], t)

RECURSIVE PatternLoop(_, _, _)
PatternLoop(actions, i, t) ==
    IF i > Len(Patterns) THEN actions
    ELSE PatternLoop(AppendPattern(actions, i, t), i + 1, t)

extract_with_regex(t) == PatternLoop(<<>>, 1, t)

(***************************************************************************)
(* Response post-processing: re.sub of the code-fence markers, json.loads. *)
(***************************************************************************)
BACKTICK == "U+0060"   \* the character of the code-fence markers
FENCE == <<BACKTICK, BACKTICK, BACKTICK>>
FENCE_JSON == <<BACKTICK, BACKTICK, BACKTICK, "j", "s", "o", "n">>

\* the literal lit at position p, case kept (re.sub is called without flags)
ExactAt(s, p, lit) ==
    /\ p + Len(lit) - 1 <= Len(s)
    /\ \A i \in 1..Len(lit) : s[p + i - 1] = lit[i]

\* the first occurrence of marker in s from p; 0: none
FirstHit(marker, s, p) ==
    IF \E q \in p..Len(s) : ExactAt(s, q, marker)
    THEN Min({q \in p..Len(s) : ExactAt(s, q, marker)})
    ELSE 0
\* the position after an occurrence ending before q: \n? takes a newline
AfterMarker(s, q) == IF q <= Len(s) /\ s[q] = NL THEN q + 1 ELSE q

\* re.sub(marker + r'\n?', '', s) from p: every occurrence, left to right,
\* is removed with the newline that follows it, if any
RECURSIVE ReSub(_, _, _), ReSubAt(_, _, _, _)
ReSub(marker, s, p) == ReSubAt(marker, s, p, FirstHit(marker, s, p))
ReSubAt(marker, s, p, q) ==
    IF q = 0 THEN SubSeq(s, p, Len(s))
    ELSE SubSeq(s, p, q - 1) \o ReSub(marker, s, AfterMarker(s, q + Len(marker)))

\* "Remove markdown code blocks if present": the two re.sub calls
StripFences(s) == ReSub(FENCE, ReSub(FENCE_JSON, s, 1), 1)

\* json.loads.  A result is [ok, v, end]: end is the position after the value.
JsonFail == [ok |-> FALSE, v |-> [t |-> "None", s |-> <<>>, items |-> <<>>], end |-> 0]
JsonOk(v, end) == [ok |-> TRUE, v |-> v, end |-> end]
SkipWs(s, p) == IF p > Len(s) THEN p ELSE RunEnd(s, p, JsonWs)
CharAt(s, p) == IF p <= Len(s) THEN s[p] ELSE "EOF"
QUOTE == "\""
BS == "U+0008"
BACKSLASH == "\\"
\* the one-character escapes of a JSON string; \uXXXX is outside the inputs
Unescape(c) ==
    CASE c = QUOTE -> <<QUOTE>>
      [] c = BACKSLASH -> <<BACKSLASH>>
      [] c = "/" -> <<"/">>
      [] c = "n" -> <<NL>>
      [] c = "t" -> <<"\t">>
      [] c = "r" -> <<"\r">>
      [] c = "b" -> <<BS>>
      [] c = "f" -> <<FF>>
      [] OTHER -> <<>>
ControlChars == {NL, "\t", "\r", BS, FF, VT}

\* the first character from p that ends a run of plain string characters: a
\* quote, a backslash or a control character; 0: none
StringStop(s, p) ==
    IF \E q \in p..Len(s) : s[q] \in {QUOTE, BACKSLASH} \cup ControlChars
    THEN Min({q \in p..Len(s) : s[q] \in {QUOTE, BACKSLASH} \cup ControlChars})
    ELSE 0

\* py_scanstring from p, the position after the opening quote (strict mode:
\* no control character inside a string); the value is the decoded characters
RECURSIVE ScanString(_, _, _), ScanStringAt(_, _, _, _)
ScanString(s, p, acc) == ScanStringAt(s, p, acc, StringStop(s, p))
ScanStringAt(s, p, acc, q) ==
    IF q = 0 THEN JsonFail
    ELSE IF s[q] = QUOTE THEN JsonOk(PyStr(acc \o SubSeq(s, p, q - 1)), q + 1)
    ELSE IF s[q] = BACKSLASH /\ Unescape(CharAt(s, q + 1)) # <<>>
    THEN ScanString(s, q + 2, acc \o SubSeq(s, p, q - 1) \o Unescape(CharAt(s, q + 1)))
    ELSE JsonFail

\* NUMBER_RE: (-?(?:0|[1-9]\d*))(\.\d+)?([eE][-+]?\d+)? at p; 0: no match
IntEnd(s, i) ==
    IF CharAt(s, i) = "0" THEN i + 1
    ELSE IF CharAt(s, i) \in Digit THEN RunEnd(s, i, Digit)
    ELSE 0
FracEnd(s, i) ==
    IF i # 0 /\ CharAt(s, i) = "." /\ CharAt(s, i + 1) \in Digit
    THEN RunEnd(s, i + 1, Digit) ELSE i
ExpDigits(s, f) == IF CharAt(s, f + 1) \in {"-", "+"} THEN f + 2 ELSE f + 1
ExpEnd(s, f) ==
    IF f # 0 /\ CharAt(s, f) \in {"e", "E"} /\ CharAt(s, ExpDigits(s, f)) \in Digit
    THEN RunEnd(s, ExpDigits(s, f), Digit) ELSE f
NumberEnd(s, p) ==
    ExpEnd(s, FracEnd(s, IntEnd(s, IF CharAt(s, p) = "-" THEN p + 1 ELSE p)))
NumberValue(s, p, end) ==
    IF end # 0 THEN JsonOk(PyInt(SubSeq(s, p, end - 1)), end) ELSE JsonFail

\* dict(pairs): a repeated key keeps its first place and takes the last value
DictSet(pairs, k, v) ==
    IF \E i \in 1..Len(pairs) : pairs[i].s = k
    THEN [i \in 1..Len(pairs) |-> IF pairs[i].s = k THEN PyPair(k, v) ELSE pairs[i]]
    ELSE Append(pairs, PyPair(k, v))

RECURSIVE ScanOnce(_, _), ArrayItems(_, _, _), ArrayNext(_, _, _),
          ArrayDelim(_, _, _), ObjectItems(_, _, _), ObjectColon(_, _, _),
          ObjectValue(_, _, _, _), ObjectNext(_, _, _, _), ObjectDelim(_, _, _)
\* JSONArray after "[" and whitespace
ArrayOpen(s, q) ==
    IF CharAt(s, q) = "]" THEN JsonOk(PyList(<<>>), q + 1) ELSE ArrayItems(s, q, <<>>)
\* JSONObject after "{" and whitespace
ObjectOpen(s, q) ==
    IF CharAt(s, q) = "}" THEN JsonOk(PyDict(<<>>), q + 1) ELSE ObjectItems(s, q, <<>>)

\* scan_once: one JSON value at p
ScanOnce(s, p) ==
    CASE CharAt(s, p) = QUOTE -> ScanString(s, p + 1, <<>>)
      [] CharAt(s, p) = "{" -> ObjectOpen(s, SkipWs(s, p + 1))
      [] CharAt(s, p) = "[" -> ArrayOpen(s, SkipWs(s, p + 1))
      [] ExactAt(s, p, <<"n","u","l","l">>) -> JsonOk(PyNone, p + 4)
      [] ExactAt(s, p, <<"t","r","u","e">>) -> JsonOk(PyBool(<<"T","r","u","e">>), p + 4)
      [] ExactAt(s, p, <<"f","a","l","s","e">>) ->
           JsonOk(PyBool(<<"F","a","l","s","e">>), p + 5)
      [] ExactAt(s, p, <<"N","a","N">>) -> JsonOk(PyInt(<<"N","a","N">>), p + 3)
      [] ExactAt(s, p, <<"I","n","f","i","n","i","t","y">>) ->
           JsonOk(PyInt(SubSeq(s, p, p + 7)), p + 8)
      [] ExactAt(s, p, <<"-","I","n","f","i","n","i","t","y">>) ->
           JsonOk(PyInt(SubSeq(s, p, p + 8)), p + 9)
      [] OTHER -> NumberValue(s, p, NumberEnd(s, p))

\* JSONArray: the values from p, after those in acc
ArrayItems(s, p, acc) == ArrayNext(s, acc, ScanOnce(s, p))
ArrayNext(s, acc, r) ==
    IF ~r.ok THEN JsonFail ELSE ArrayDelim(s, Append(acc, r.v), SkipWs(s, r.end))
ArrayDelim(s, acc, q) ==
    IF CharAt(s, q) = "]" THEN JsonOk(PyList(acc), q + 1)
    ELSE IF CharAt(s, q) = "," THEN ArrayItems(s, SkipWs(s, q + 1), acc)
    ELSE JsonFail

\* JSONObject: the "key": value pairs from p, after those in acc
ObjectItems(s, p, acc) ==
    IF CharAt(s, p) # QUOTE THEN JsonFail
    ELSE ObjectColon(s, acc, ScanString(s, p + 1, <<>>))
ObjectColon(s, acc, k) ==
    IF ~k.ok THEN JsonFail ELSE ObjectValue(s, acc, k.v.s, SkipWs(s, k.end))
ObjectValue(s, acc, key, c) ==
    IF CharAt(s, c) # ":" THEN JsonFail
    ELSE ObjectNext(s, acc, key, ScanOnce(s, SkipWs(s, c + 1)))
ObjectNext(s, acc, key, r) ==
    IF ~r.ok THEN JsonFail
    ELSE ObjectDelim(s, DictSet(acc, key, r.v), SkipWs(s, r.end))
ObjectDelim(s, acc, q) ==
    IF CharAt(s, q) = "}" THEN JsonOk(PyDict(acc), q + 1)
    ELSE IF CharAt(s, q) = "," THEN ObjectItems(s, SkipWs(s, q + 1), acc)
    ELSE JsonFail

\* the value r read from s is all of s but whitespace
WholeText(s, r) == IF r.ok /\ SkipWs(s, r.end) = Len(s) + 1 THEN r ELSE JsonFail
\* json.loads(s): one value, whitespace around it, nothing else
json_loads(s) == WholeText(s, ScanOnce(s, SkipWs(s, 1)))

(***************************************************************************)
(* Inputs.                                                                 *)
(***************************************************************************)
\* the most phrases a text of the matcher's specification is built of
MaxSeg == 4

Phrases ==
    { <<"@">>,
      <<"a","l"," ","t","o"," ">>,
      <<"A","l"," ","w","i","l","l"," ">>,
      <<"x"," ">>,
      <<"b","y"," ","3">>,
      <<"-"," ">>,
      <<NL>> }

RECURSIVE TextsOf(_)
TextsOf(n) ==
    IF n = 0 THEN {<<>>}
    ELSE LET S == TextsOf(n - 1) IN S \cup {s \o ph : s \in S, ph \in Phrases}

Texts == TextsOf(MaxSeg)

NoKwargs == [api_key |-> "absent", base_url |-> "absent", model |-> "absent"]
NoCalls == [requester |-> 0, network |-> 0, matcher |-> 0]

\* JSON texts the responses are built of
Q(chars) == <<QUOTE>> \o chars \o <<QUOTE>>
Member(k, v) == Q(k) \o <<":", " ">> \o Q(v)
FullItemText ==
    <<"{">> \o Member(K_assignee, <<"a","l">>) \o <<",", " ">>
        \o Member(K_task, <<"x">>) \o <<",", " ">>
        \o Member(K_due_date, <<"3">>) \o <<",", " ">>
        \o Member(K_priority, <<"l","o","w">>) \o <<",", " ">>
        \o Member(K_context, <<"c">>) \o <<"}">>
PartialItemText == <<"{">> \o Member(K_task, <<"x">>) \o <<"}">>
FencedStringText == Q(FENCE \o <<"x">>)
Elements == {FullItemText, PartialItemText, Q(<<"x">>), <<"1">>, FencedStringText}

\* the most elements of a payload array
MaxItems == 2

RECURSIVE ElementLists(_)
ElementLists(n) ==
    IF n = 0 THEN {<<>>}
    ELSE LET S == ElementLists(n - 1)
         IN S \cup {Append(l, e) : l \in S, e \in Elements}

RECURSIVE Join(_)
Join(l) ==
    IF l = <<>> THEN <<>>
    ELSE IF Len(l) = 1 THEN l[1]
    ELSE l[1] \o <<",", " ">> \o Join(Tail(l))

ArrayText(l) == <<"[">> \o Join(l) \o <<"]">>
Payloads == {ArrayText(l) : l \in ElementLists(MaxItems)} \cup Elements

Fences == {"none", "plain", "json", "json_inline", "other_tag"}
Wrap(fence, P) ==
    CASE fence = "none" -> P
      [] fence = "plain" -> FENCE \o <<NL>> \o P \o <<NL>> \o FENCE
      [] fence = "json" -> FENCE_JSON \o <<NL>> \o P \o <<NL>> \o FENCE
      [] fence = "json_inline" -> FENCE_JSON \o P \o FENCE
      [] fence = "other_tag" -> FENCE \o <<"j","s",NL>> \o P \o <<NL>> \o FENCE

\* A response: kind "text" with its body (built of a payload and a fence), or
\* kind "absent" (message.content is None; the body has no "response" field)
TextResponse(fence, P) ==
    [kind |-> "text", body |-> Wrap(fence, P), payload |-> P, fence |-> fence]
AbsentResponse == [kind |-> "absent", body |-> <<>>, payload |-> <<>>, fence |-> "none"]
NoResponse == [kind |-> "none", body |-> <<>>, payload |-> <<>>, fence |-> "none"]
Junk == {<<>>, <<"o","k">>, <<"[","1",",">>, <<" ">>}

Responses ==
    {TextResponse(f, P) : f \in Fences, P \in Payloads}
        \cup {TextResponse("none", j) : j \in Junk} \cup {AbsentResponse}

EngineResponses ==
    {TextResponse(f, P) : f \in {"none", "json"},
                          P \in {ArrayText(<<FullItemText>>), PartialItemText}}
        \cup {TextResponse("none", <<"o","k">>), AbsentResponse}

EngineTexts ==
    { <<"@","a","l"," ","t","o"," ","x"," ","b","y"," ","3">>,
      <<"a","l"," ","t","o"," ","x"," ","b","y"," ","3">>,
      <<"-"," ","x"," ","b","y"," ","3">>,
      <<"x"," ">> }

Providers == {"regex", "openai", "ollama", "unknown", "OpenAI", ""}
KeyValues == {"None", "", "sk-env"}
Options ==
    [api_key : {"absent", "", "sk-kw"}, base_url : {"absent", "http://gpu:11434"},
     model : {"absent"}]

(***************************************************************************)
(* The engine and the requesters.                                          *)
(***************************************************************************)
\* a dispatch that ignores the case of the name
DispatchAnyCase(name) ==
    IF name \in {"openai", "OpenAI"} THEN "openai"
    ELSE IF name = "ollama" THEN "ollama"
    ELSE "regex"
\* extract_action_items: the branch a provider name takes
Dispatch(name) ==
    IF name = "openai" THEN "openai"
    ELSE IF name = "ollama" THEN "ollama"
    ELSE "regex"

\* kwargs.get("api_key")
KwApiKey(kw) == IF kw.api_key = "absent" THEN "None" ELSE kw.api_key
\* Python truth of an Optional[str]
Truthy(k) == k \notin {"None", ""}
\* the environment's key taken before the caller's
ResolveKeyEnvFirst(api_key, env) == IF Truthy(env) THEN env ELSE api_key
\* api_key = api_key or os.getenv("OPENAI_API_KEY")
ResolveKey(api_key, env) == IF Truthy(api_key) THEN api_key ELSE env

\* a normalisation that wraps whatever was parsed
AsListAlwaysWraps(v) == <<v>>
\* actions if isinstance(actions, list) else [actions]
AsList(v) == IF v.t = "list" THEN v.items ELSE <<v>>

\* extract_with_openai, lines 107-112: the text handed to json.loads
OpenaiText(r) == StripFences(Strip(r.body))
\* extract_with_ollama, lines 150-153: .get("response", "") and the re.subs
OllamaText(r) == StripFences(IF r.kind = "absent" THEN <<>> ELSE r.body)
\* the try block after the network call answered: does it raise?
OpenaiParses(r) == r.kind = "text" /\ json_loads(OpenaiText(r)).ok
OllamaParses(r) == json_loads(OllamaText(r)).ok

\* the except branch: "Falling back to regex extraction..."
FallbackTwice(t) == extract_with_regex(t) \o extract_with_regex(t)
Fallback(t) == extract_with_regex(t)
CountMatcher(c) == [c EXCEPT !.matcher = @ + 1]
CountNetwork(c) == [c EXCEPT !.network = @ + 1]
CountRequester(c) == [c EXCEPT !.requester = @ + 1]

OpenaiErrors == {"APIConnectionError", "APITimeoutError", "AuthenticationError"}
\* requests.post raises, raise_for_status raises, response.json() raises
OllamaErrors == {"ConnectionError", "Timeout", "HTTPError", "JSONDecodeError"}

Init ==
    /\ text \in EngineTexts \cup {<<>>}
    /\ provider \in Providers
    /\ caller \in {"web", "direct"}
    /\ kwargs \in Options
    /\ caller = "web" => kwargs = NoKwargs
    /\ caller = "direct" => text # <<>>
    /\ environ \in KeyValues
    /\ OPENAI_AVAILABLE \in BOOLEAN
    /\ REQUESTS_AVAILABLE \in BOOLEAN
    /\ transport \in {"down", "any"}
    /\ pc = IF caller = "web" THEN "request" ELSE "call"
    /\ response = NoResponse
    /\ result = <<>>
    /\ raised = "none"
    /\ calls = NoCalls
    /\ client_key = "None"
    /\ source = "none"
    /\ http = 0

\* app.extract up to its call of extract_action_items
WebExtract ==
    /\ pc = "request"
    /\ IF text = <<>>
       THEN /\ http' = 400
            /\ pc' = "rejected"
            /\ UNCHANGED kwargs
       ELSE /\ kwargs' = IF provider = "ollama"
                         THEN [NoKwargs EXCEPT !.base_url = "http://localhost:11434",
                                               !.model = "llama2"]
                         ELSE NoKwargs
            /\ pc' = "call"
            /\ UNCHANGED http
    /\ UNCHANGED <<text, provider, environ, OPENAI_AVAILABLE, REQUESTS_AVAILABLE,
                   caller, response, result, raised, calls, client_key, transport,
                   source>>

\* extract_action_items, the else branch: extract_with_regex
CallRegex ==
    /\ pc = "call"
    /\ Dispatch(provider) = "regex"
    /\ result' = extract_with_regex(text)
    /\ calls' = CountMatcher(calls)
    /\ source' = "regex"
    /\ pc' = "returned"
    /\ UNCHANGED <<text, provider, kwargs, environ, OPENAI_AVAILABLE,
                   REQUESTS_AVAILABLE, caller, response, raised, client_key,
                   transport, http>>

\* extract_with_openai up to client.chat.completions.create
CallOpenai ==
    /\ pc = "call"
    /\ Dispatch(provider) = "openai"
    /\ IF ~OPENAI_AVAILABLE
       THEN /\ raised' = "ImportError"
            /\ pc' = "returned"
            /\ calls' = CountRequester(calls)
            /\ UNCHANGED client_key
       ELSE IF ~Truthy(ResolveKey(KwApiKey(kwargs), environ))
       THEN /\ raised' = "ValueError"
            /\ pc' = "returned"
            /\ calls' = CountRequester(calls)
            /\ UNCHANGED client_key
       ELSE /\ client_key' = ResolveKey(KwApiKey(kwargs), environ)
            /\ calls' = CountNetwork(CountRequester(calls))
            /\ pc' = "openai_request"
            /\ UNCHANGED raised
    /\ UNCHANGED <<text, provider, kwargs, environ, OPENAI_AVAILABLE,
                   REQUESTS_AVAILABLE, caller, response, result, transport,
                   source, http>>

\* extract_with_ollama up to requests.post
CallOllama ==
    /\ pc = "call"
    /\ Dispatch(provider) = "ollama"
    /\ IF ~REQUESTS_AVAILABLE
       THEN /\ raised' = "ImportError"
            /\ pc' = "returned"
            /\ calls' = CountRequester(calls)
       ELSE /\ calls' = CountNetwork(CountRequester(calls))
            /\ pc' = "ollama_request"
            /\ UNCHANGED raised
    /\ UNCHANGED <<text, provider, kwargs, environ, OPENAI_AVAILABLE,
                   REQUESTS_AVAILABLE, caller, response, result, client_key,
                   transport, source, http>>

\* the network call raised: the except branch
RequestFails(at, errors) ==
    /\ pc = at
    /\ \E e \in errors :
        /\ result' = Fallback(text)
        /\ calls' = CountMatcher(calls)
        /\ source' = "regex"
        /\ pc' = "returned"
    /\ UNCHANGED <<text, provider, kwargs, environ, OPENAI_AVAILABLE,
                   REQUESTS_AVAILABLE, caller, response, raised, client_key,
                   transport, http>>

\* the network call answered r: post-processing, json.loads, and the except
\* branch when any of it raises
OpenaiResponds(R) ==
    /\ pc = "openai_request"
    /\ transport = "any"
    /\ \E r \in R :
        /\ response' = r
        /\ IF OpenaiParses(r)
           THEN /\ result' = AsList(json_loads(OpenaiText(r)).v)
                /\ source' = "llm"
                /\ UNCHANGED calls
           ELSE /\ result' = Fallback(text)
                /\ source' = "regex"
                /\ calls' = CountMatcher(calls)
    /\ pc' = "returned"
    /\ UNCHANGED <<text, provider, kwargs, environ, OPENAI_AVAILABLE,
                   REQUESTS_AVAILABLE, caller, raised, client_key, transport, http>>

OllamaResponds(R) ==
    /\ pc = "ollama_request"
    /\ transport = "any"
    /\ \E r \in R :
        /\ response' = r
        /\ IF OllamaParses(r)
           THEN /\ result' = AsList(json_loads(OllamaText(r)).v)
                /\ source' = "llm"
                /\ UNCHANGED calls
           ELSE /\ result' = Fallback(text)
                /\ source' = "regex"
                /\ calls' = CountMatcher(calls)
    /\ pc' = "returned"
    /\ UNCHANGED <<text, provider, kwargs, environ, OPENAI_AVAILABLE,
                   REQUESTS_AVAILABLE, caller, raised, client_key, transport, http>>

\* back in the caller: app.extract answers 200 with the actions, or 500 from
\* its except branch; a direct caller has the list or the exception
Return ==
    /\ pc = "returned"
    /\ pc' = "done"
    /\ http' = IF caller # "web" THEN 0 ELSE IF raised = "none" THEN 200 ELSE 500
    /\ UNCHANGED <<text, provider, kwargs, environ, OPENAI_AVAILABLE,
                   REQUESTS_AVAILABLE, caller, response, result, raised, calls,
                   client_key, transport, source>>

Next ==
    \/ WebExtract
    \/ CallRegex
    \/ CallOpenai
    \/ CallOllama
    \/ RequestFails("openai_request", OpenaiErrors)
    \/ RequestFails("ollama_request", OllamaErrors)
    \/ OpenaiResponds(EngineResponses)
    \/ OllamaResponds(EngineResponses)
    \/ Return

Spec == Init /\ [][Next]_vars

(***************************************************************************)
(* The requesters' handling of a response, over every response built of    *)
(* the payloads and fences above: the request is in flight.                *)
(***************************************************************************)
InitParse ==
    /\ text \in {<<"-"," ","x"," ","b","y"," ","3">>, <<"x"," ">>}
    /\ provider \in {"openai", "ollama"}
    /\ caller = "direct"
    /\ kwargs = [NoKwargs EXCEPT !.api_key = "sk-kw"]
    /\ environ = "None"
    /\ OPENAI_AVAILABLE = TRUE
    /\ REQUESTS_AVAILABLE = TRUE
    /\ transport = "any"
    /\ pc = IF provider = "openai" THEN "openai_request" ELSE "ollama_request"
    /\ response = NoResponse
    /\ result = <<>>
    /\ raised = "none"
    /\ calls = [NoCalls EXCEPT !.requester = 1, !.network = 1]
    /\ client_key = IF provider = "openai" THEN "sk-kw" ELSE "None"
    /\ source = "none"
    /\ http = 0

NextParse ==
    \/ OpenaiResponds(Responses)
    \/ OllamaResponds(Responses)
    \/ Return

SpecParse == InitParse /\ [][NextParse]_vars

(***************************************************************************)
(* The pattern matcher alone, one pass of its loop at a time.              *)
(***************************************************************************)
PatternPc == <<"for_1", "for_2", "for_3">>

InitMatch ==
    /\ text \in Texts
    /\ provider = "regex"
    /\ kwargs = NoKwargs
    /\ environ = "None"
    /\ OPENAI_AVAILABLE = TRUE
    /\ REQUESTS_AVAILABLE = TRUE
    /\ caller = "direct"
    /\ pc = PatternPc[1]
    /\ response = <<>>
    /\ result = <<>>
    /\ raised = "none"
    /\ calls = [NoCalls EXCEPT !.matcher = 1]
    /\ client_key = "None"
    /\ transport = "any"
    /\ source = "none"
    /\ http = 0

ScanPattern(i) ==
    /\ pc = PatternPc[i]
    /\ result' = AppendPattern(result, i, text)
    /\ pc' = IF i < Len(Patterns) THEN PatternPc[i + 1] ELSE "return"
    /\ UNCHANGED <<text, provider, kwargs, environ, OPENAI_AVAILABLE,
                   REQUESTS_AVAILABLE, caller, response, raised, calls, client_key,
                   transport, source, http>>

ReturnActions ==
    /\ pc = "return"
    /\ pc' = "done"
    /\ source' = "regex"
    /\ UNCHANGED <<text, provider, kwargs, environ, OPENAI_AVAILABLE,
                   REQUESTS_AVAILABLE, caller, response, result, raised, calls,
                   client_key, transport, http>>

NextMatch ==
    \/ \E i \in 1..Len(Patterns) : ScanPattern(i)
    \/ ReturnActions

SpecMatch == InitMatch /\ [][NextMatch]_vars
(***************************************************************************)
(* The claims.                                                             *)
(***************************************************************************)
Returned == {"returned", "done"}
Requesters == {"openai", "ollama"}
FiveKeys == {K_assignee, K_task, K_due_date, K_priority, K_context}
HasFiveKeys(v) ==
    /\ v.t = "dict"
    /\ \A k \in FiveKeys : \E j \in 1..Len(v.items) : v.items[j].s = k
\* the text a requester hands to json.loads, and what it parses to
ParsedText == IF provider = "openai" THEN OpenaiText(response) ELSE OllamaText(response)
Parsed == json_loads(ParsedText)
MatchesOf(pattern) == Finditer(pattern, text, 1)

\* C1: whatever failure the requester hits (missing dependency, missing
\* credential, network failure, bad status, timeout, unparsable response),
\* extract_action_items returns normally and the web route never answers
\* with an error.
C1_RequesterFailureNeverPropagates ==
    (provider \in Requesters /\ pc \in Returned) => (raised = "none" /\ http # 500)

\* C2: with a transport that always fails, extract_action_items(text, "openai"
\* or "ollama") returns exactly extract_with_regex(text) and raises nothing.
C2_TransportDownGivesRegexResult ==
    (provider \in Requesters /\ transport = "down" /\ pc \in Returned)
        => (raised = "none" /\ result = extract_with_regex(text))

\* C3: a strategy name other than "regex", "openai" and "ollama", with any
\* options, gives what "regex" gives: the pattern matcher's output, no
\* requester invoked, no network call, no error.
C3_UnknownStrategyIsRegex ==
    /\ provider \notin Requesters => (calls.requester = 0 /\ calls.network = 0)
    /\ (provider \notin Requesters /\ pc \in Returned)
           => /\ raised = "none"
              /\ source = "regex"
              /\ result = extract_with_regex(text)
\* an unknown name, with a caller's api_key among the options, has returned items
C3_Witness ==
    /\ provider = "OpenAI"
    /\ kwargs.api_key = "sk-kw"
    /\ pc = "done"
    /\ Len(result) = 2

\* C4: every item extract_action_items returns, whatever the strategy, has
\* the five keys assignee, task, due_date, priority and context.
C4_EveryItemHasFiveKeys ==
    (pc \in Returned /\ raised = "none")
        => \A i \in 1..Len(result) : HasFiveKeys(result[i])

\* C5: a text with no '@', no capitalized name (here: no upper-case letter at
\* all) and no bullet marker gives no item.
C5_NoTriggerNoItems ==
    (/\ pc = "done"
     /\ \A i \in 1..Len(text) : text[i] \notin UpperSet \cup {"@", "-", BULLET, "*"})
        => result = <<>>

\* C6: when the text handed to json.loads parses, the requester returns the
\* parsed value itself if it is an array, and a one-element sequence holding
\* it otherwise.
C6_NonArrayWrappedArrayUnchanged ==
    (pc \in Returned /\ response.kind = "text" /\ Parsed.ok)
        => /\ source = "llm"
           /\ Parsed.v.t = "list" => result = Parsed.v.items
           /\ Parsed.v.t # "list" => result = <<Parsed.v>>
\* the model answered the single object {"task": "x"}
C6_Witness ==
    /\ pc = "done"
    /\ response.kind = "text"
    /\ response.payload = PartialItemText
    /\ result = <<PyDict(<<PyPair(K_task, PyStr(<<"x">>))>>)>>

\* C7: a response that is a valid JSON array inside code-fence markers, with
\* or without a language tag, is post-processed to what the array alone
\* parses to.
C7_FencedArrayParsesAsUnfenced ==
    (/\ pc \in Returned
     /\ response.kind = "text"
     /\ response.fence # "none"
     /\ json_loads(response.payload).ok
     /\ json_loads(response.payload).v.t = "list")
        => (source = "llm" /\ result = json_loads(response.payload).v.items)

\* C8: with the hosted-API strategy and no API key from the caller or the
\* environment, the requester raises its configuration error and the call
\* makes no network call; a caller's key is used before the environment's.
C8_NoKeyNoNetworkCallerKeyFirst ==
    /\ (provider = "openai" /\ kwargs.api_key \in {"absent", ""}
            /\ environ \in {"None", ""})
           => /\ calls.network = 0
              /\ pc # "openai_request"
              /\ pc \in Returned =>
                     raised = IF OPENAI_AVAILABLE THEN "ValueError" ELSE "ImportError"
    /\ (provider = "openai" /\ calls.network > 0)
           => client_key = IF kwargs.api_key \in {"absent", ""}
                           THEN environ ELSE kwargs.api_key
\* the package is there, no key is: the call ended in ValueError, no network call
C8_Witness ==
    /\ provider = "openai"
    /\ OPENAI_AVAILABLE
    /\ kwargs.api_key = "" /\ environ = "None"
    /\ pc = "done"
    /\ raised = "ValueError"
    /\ calls.network = 0

\* C9: in one call the requester is invoked at most once, the pattern matcher
\* at most once, and the list returned is wholly the requester's parsed
\* response (matcher not run) or wholly the pattern matcher's output.
C9_OneAttemptOneSource ==
    /\ calls.requester <= 1 /\ calls.network <= 1 /\ calls.matcher <= 1
    /\ (pc \in Returned /\ raised = "none")
           => \/ /\ source = "llm"
                 /\ calls.matcher = 0
                 /\ calls.network = 1
                 /\ Parsed.ok
                 /\ result = IF Parsed.v.t = "list" THEN Parsed.v.items
                             ELSE <<Parsed.v>>
              \/ /\ source = "regex"
                 /\ calls.matcher = 1
                 /\ result = extract_with_regex(text)
\* a request answered with unparsable text: one network call, then the
\* matcher's two items
C9_Witness ==
    /\ provider = "ollama"
    /\ pc = "done"
    /\ response.kind = "text"
    /\ ~Parsed.ok
    /\ calls = [requester |-> 1, network |-> 1, matcher |-> 1]
    /\ Len(result) = 2

====
